---------------------------- MODULE Spec2Model ----------------------------
(***************************************************************************)
(* robot_game: a UDP-steered actor (src/robot.py) and the controller that  *)
(* expands gestures into primitive commands (src/cliente_robot.py).        *)
(*                                                                         *)
(* SpecRobot      the actor process: the receive thread and the game loop, *)
(*                one action per statement that touches shared state.      *)
(* SpecTicks      the actor process, one action per handler: an iteration  *)
(*                of the receive loop, an iteration of the game loop.      *)
(* SpecController the controller process: one action per gesture call made *)
(*                by main(), single-threaded.                              *)
(* Text (datagrams, commands) is a sequence of one-character strings, so   *)
(* that strip, lower and split are computed and not assumed.               *)
(***************************************************************************)
EXTENDS Integers, Sequences, FiniteSets, TLC

VARIABLES
    \* ---- src/robot.py
    current_command,   \* the slot: None or the text last stored
    command_to_use,    \* the game loop's local copy
    command_lock,      \* "free", "recv" or "main": who holds the lock
    running,           \* the shared shutdown flag
    pcRecv,            \* position of the receive thread
    pcMain,            \* position of the game loop
    data,              \* the datagram the receive thread is handling
    res,               \* its fields after split
    rect_x, rect_y,    \* robot.rect top-left corner
    direction,         \* robot.direction
    delivered,         \* datagrams handed out by the socket so far
    quitPosted,        \* the window's QUIT event has been posted
    hist,              \* history: writes since the last take, and the last tick
    \* ---- src/cliente_robot.py
    cfg,               \* constructor arguments of RobotSocketController
    pos_x, pos_y,      \* the controller's mirrored position
    sock_open,         \* the controller's socket is open
    ctl_pc,            \* main(): "input", "called" or "closed"
    ncalls,            \* lines main() has dispatched so far
    last               \* history: the last call made by main() and its outcome

robotVars == <<current_command, command_to_use, command_lock, running, pcRecv,
               pcMain, data, res, rect_x, rect_y, direction, delivered,
               quitPosted, hist>>
ctlVars   == <<cfg, pos_x, pos_y, sock_open, ctl_pc, ncalls, last>>
vars      == <<robotVars, ctlVars>>

---------------------------------------------------------------------------
\* Bounds of the model
MaxDatagrams == 4      \* datagrams the network delivers to the actor (SpecRobot)
MaxFrames    == 8      \* datagrams the network delivers to the actor (SpecTicks)
MaxFailAt    == 1      \* a failing sendto is among the first MaxFailAt of a call
MaxCalls     == 3      \* lines main() dispatches before it is left at its prompt
LiveDatagrams == 2     \* datagrams that may carry a command, before an endless stream (SpecLive)
ProbeSlack   == 2      \* how far beyond one step of a margin _validar_movimento is probed

---------------------------------------------------------------------------
\* The arena margins (RobotSocketController.margin_x, margin_y)
margin_x == 25
margin_y == 35

---------------------------------------------------------------------------
\* Text

None == <<"None">>     \* Python's None: no text equals it

T_controle == <<"c","o","n","t","r","o","l","e">>
T_up       == <<"u","p">>
T_down     == <<"d","o","w","n">>
T_left     == <<"l","e","f","t">>
T_right    == <<"r","i","g","h","t">>
T_foo      == <<"f","o","o">>
T_hello    == <<"h","e","l","l","o">>
T_semi     == <<";">>

Directions == {T_up, T_down, T_left, T_right}

Upper == <<"A","B","C","D","E","F","G","H","I","J","K","L","M",
           "N","O","P","Q","R","S","T","U","V","W","X","Y","Z">>
Lowercase == <<"a","b","c","d","e","f","g","h","i","j","k","l","m",
           "n","o","p","q","r","s","t","u","v","w","x","y","z">>

LowerTable ==
    [c \in {Upper[i] : i \in 1..Len(Upper)} |->
        Lowercase[CHOOSE i \in 1..Len(Upper) : Upper[i] = c]]

\* str.lower on one character
LowerChar(c) == IF c \in DOMAIN LowerTable THEN LowerTable[c] ELSE c

\* str.lower
Lower(s) == [i \in 1..Len(s) |-> LowerChar(s[i])]

IsSpace(c) == c \in {" ", "\n", "\t", "\r"}

RECURSIVE LStrip(_)
LStrip(s) == IF s # <<>> /\ IsSpace(Head(s)) THEN LStrip(Tail(s)) ELSE s

RECURSIVE RStrip(_)
RStrip(s) ==
    IF s # <<>> /\ IsSpace(s[Len(s)]) THEN RStrip(SubSeq(s, 1, Len(s) - 1)) ELSE s

\* str.strip
Strip(s) == RStrip(LStrip(s))

\* str.split(sep) for a one-character separator: the fields, at least one
RECURSIVE SplitFrom(_, _, _)
SplitFrom(s, sep, field) ==
    IF s = <<>> THEN <<field>>
    ELSE IF Head(s) = sep THEN <<field>> \o SplitFrom(Tail(s), sep, <<>>)
    ELSE SplitFrom(Tail(s), sep, Append(field, Head(s)))

Split(s, sep) == SplitFrom(s, sep, <<>>)

\* f"controle;{comando}"
Frame(comando) == T_controle \o T_semi \o comando

---------------------------------------------------------------------------
\* src/robot.py

screen_width  == 800
screen_height == 600
robot_step    == 10
image_width   == 800
image_height  == 600

\* Datagrams the network may deliver: the four commands, one in upper case
\* with surrounding blanks, and frames that do not decode
Payloads ==
    { Frame(T_up), Frame(T_down), Frame(T_left), Frame(T_right),
      <<" ">> \o <<"C","o","n","t","r","o","l","e",";","U","P">> \o <<"\n">>,
      Frame(T_foo), T_controle, T_hello }

\* data.decode("utf-8").strip().lower().split(";")
DecodeFields(d) == Split(Lower(Strip(d)), ";")

\* Python truthiness of the slot's content
Truthy(c) == c # None /\ c # <<>>

robot_center_x == rect_x + image_width \div 2
robot_center_y == rect_y + image_height \div 2

\* Robot.update: the displacement of the rect for a command
RobotDx(command) ==
    IF command = T_left THEN -robot_step
    ELSE IF command = T_right THEN robot_step ELSE 0

RobotDy(command) ==
    IF command = T_up THEN -robot_step
    ELSE IF command = T_down THEN robot_step ELSE 0

RobotDirection(command, old) ==
    IF command \in Directions THEN command ELSE old

\* history: nothing was written into the slot since the last take
NoWrite == <<"NoWrite">>

InitRobot ==
    /\ current_command = None
    /\ command_to_use = None
    /\ command_lock = "free"
    /\ running = TRUE
    /\ pcRecv = "while"
    /\ pcMain = "while"
    /\ data = None
    /\ res = <<>>
    /\ rect_x = screen_width \div 2 - image_width \div 2
    /\ rect_y = (screen_height * 10) \div 12 - image_height \div 2
    /\ direction = <<"U","P">>
    /\ delivered = 0
    /\ quitPosted = FALSE
    /\ hist = [ writes |-> 0, lastWrite |-> NoWrite,
                takenWrites |-> 0, takenWrite |-> NoWrite,
                before |-> <<0, 0>>, ticked |-> FALSE ]
    \* the controller is another process, not part of this specification
    /\ cfg = <<>>
    /\ pos_x = 0
    /\ pos_y = 0
    /\ sock_open = FALSE
    /\ ctl_pc = "off"
    /\ ncalls = 0
    /\ last = <<>>

\* ---- the receive thread: receive_commands

\* (mutant) while True: in receive_commands
RecvWhileTrue ==
    /\ pcRecv = "while"
    /\ pcRecv' = "recvfrom"
    /\ UNCHANGED ctlVars
    /\ UNCHANGED <<current_command, command_to_use, command_lock, running, pcMain,
                   data, res, rect_x, rect_y, direction, delivered, quitPosted, hist>>

\* while running:
RecvWhile ==
    /\ pcRecv = "while"
    /\ pcRecv' = IF running THEN "recvfrom" ELSE "done"
    /\ UNCHANGED ctlVars
    /\ UNCHANGED <<current_command, command_to_use, command_lock, running, pcMain,
                   data, res, rect_x, rect_y, direction, delivered, quitPosted, hist>>

\* sock.recvfrom(4096) on the non-blocking socket: nothing there
RecvNothing ==
    /\ pcRecv = "recvfrom"
    /\ pcRecv' = "while"
    /\ UNCHANGED ctlVars
    /\ UNCHANGED <<current_command, command_to_use, command_lock, running, pcMain,
                   data, res, rect_x, rect_y, direction, delivered, quitPosted, hist>>

\* sock.recvfrom(4096): a datagram
RecvDatagram(p) ==
    /\ pcRecv = "recvfrom"
    /\ delivered < MaxDatagrams
    /\ delivered' = delivered + 1
    /\ data' = p
    /\ pcRecv' = "acquire"
    /\ UNCHANGED ctlVars
    /\ UNCHANGED <<current_command, command_to_use, command_lock, running, pcMain,
                   res, rect_x, rect_y, direction, quitPosted, hist>>

\* with command_lock: (enter)
RecvAcquire ==
    /\ pcRecv = "acquire"
    /\ command_lock = "free"
    /\ command_lock' = "recv"
    /\ pcRecv' = "print"
    /\ UNCHANGED ctlVars
    /\ UNCHANGED <<current_command, command_to_use, running, pcMain, data, res,
                   rect_x, rect_y, direction, delivered, quitPosted, hist>>

\* print(f"Comando recebido: ...")
RecvPrint ==
    /\ pcRecv = "print"
    /\ pcRecv' = "decode"
    /\ UNCHANGED ctlVars
    /\ UNCHANGED <<current_command, command_to_use, command_lock, running, pcMain,
                   data, res, rect_x, rect_y, direction, delivered, quitPosted, hist>>

\* res = data.decode("utf-8").strip().lower().split(";")
RecvDecode ==
    /\ pcRecv = "decode"
    /\ res' = DecodeFields(data)
    /\ pcRecv' = "store"
    /\ UNCHANGED ctlVars
    /\ UNCHANGED <<current_command, command_to_use, command_lock, running, pcMain,
                   data, rect_x, rect_y, direction, delivered, quitPosted, hist>>

\* The value the receive loop stores for the fields res; res[1] of a
\* one-field list raises IndexError
StoreRaises(r) == r[1] = T_controle /\ Len(r) < 2

StoredValue(r) == IF r[1] = T_controle THEN r[2] ELSE None

\* (mutant) the receive loop keeps an unread command instead of overwriting it
PublishIfEmpty(old, v) == IF old = None THEN v ELSE old

\* The slot after the receive loop writes v over old
Publish(old, v) == v

\* if res[0] == "controle": current_command = res[1] else: current_command = None
RecvStore ==
    /\ pcRecv = "store"
    /\ ~StoreRaises(res)
    /\ current_command' = Publish(current_command, StoredValue(res))
    \* (writes are counted up to MaxDatagrams + 1)
    /\ hist' = [hist EXCEPT !.writes = IF @ <= MaxDatagrams THEN @ + 1 ELSE @,
                            !.lastWrite = StoredValue(res)]
    /\ pcRecv' = "release"
    /\ UNCHANGED ctlVars
    /\ UNCHANGED <<command_to_use, command_lock, running, pcMain, data, res,
                   rect_x, rect_y, direction, delivered, quitPosted>>

\* (mutant) the receive thread ended by an exception without giving the
\* lock back
RecvRaiseLocked ==
    /\ pcRecv = "store"
    /\ StoreRaises(res)
    /\ pcRecv' = "dead"
    /\ UNCHANGED ctlVars
    /\ UNCHANGED <<current_command, command_to_use, command_lock, running, pcMain,
                   data, res, rect_x, rect_y, direction, delivered, quitPosted, hist>>

\* res[1] raises IndexError: the with block releases the lock, no handler
\* catches it (only BlockingIOError is caught) and the thread ends
RecvRaise ==
    /\ pcRecv = "store"
    /\ StoreRaises(res)
    /\ command_lock' = "free"
    /\ pcRecv' = "dead"
    /\ UNCHANGED ctlVars
    /\ UNCHANGED <<current_command, command_to_use, running, pcMain, data, res,
                   rect_x, rect_y, direction, delivered, quitPosted, hist>>

\* with command_lock: (exit)
RecvRelease ==
    /\ pcRecv = "release"
    /\ command_lock' = "free"
    /\ pcRecv' = "while"
    /\ UNCHANGED ctlVars
    /\ UNCHANGED <<current_command, command_to_use, running, pcMain, data, res,
                   rect_x, rect_y, direction, delivered, quitPosted, hist>>

\* ---- the game loop

\* while running:
MainWhile ==
    /\ pcMain = "while"
    /\ pcMain' = IF running THEN "events" ELSE "join"
    /\ UNCHANGED ctlVars
    /\ UNCHANGED <<current_command, command_to_use, command_lock, running, pcRecv,
                   data, res, rect_x, rect_y, direction, delivered, quitPosted, hist>>

\* for event in pygame.event.get(): no QUIT event
MainEvents ==
    /\ pcMain = "events"
    /\ pcMain' = "acquire"
    /\ UNCHANGED ctlVars
    /\ UNCHANGED <<current_command, command_to_use, command_lock, running, pcRecv,
                   data, res, rect_x, rect_y, direction, delivered, quitPosted, hist>>

\* for event in pygame.event.get(): a QUIT event, running = False
MainQuit ==
    /\ pcMain = "events"
    /\ ~quitPosted
    /\ quitPosted' = TRUE
    /\ running' = FALSE
    /\ pcMain' = "acquire"
    /\ UNCHANGED ctlVars
    /\ UNCHANGED <<current_command, command_to_use, command_lock, pcRecv,
                   data, res, rect_x, rect_y, direction, delivered, hist>>

\* (mutant) the take made without command_lock
MainAcquireNoLock ==
    /\ pcMain = "acquire"
    /\ pcMain' = "read"
    /\ UNCHANGED ctlVars
    /\ UNCHANGED <<current_command, command_to_use, command_lock, running, pcRecv,
                   data, res, rect_x, rect_y, direction, delivered, quitPosted, hist>>

\* with command_lock: (enter)
MainAcquire ==
    /\ pcMain = "acquire"
    /\ command_lock = "free"
    /\ command_lock' = "main"
    /\ pcMain' = "read"
    /\ UNCHANGED ctlVars
    /\ UNCHANGED <<current_command, command_to_use, running, pcRecv, data, res,
                   rect_x, rect_y, direction, delivered, quitPosted, hist>>

\* command_to_use = current_command
MainRead ==
    /\ pcMain = "read"
    /\ command_to_use' = current_command
    /\ hist' = [hist EXCEPT !.takenWrites = hist.writes, !.takenWrite = hist.lastWrite,
                            !.writes = 0, !.lastWrite = NoWrite,
                            !.before = <<rect_x, rect_y>>, !.ticked = FALSE]
    /\ pcMain' = "clear"
    /\ UNCHANGED ctlVars
    /\ UNCHANGED <<current_command, command_lock, running, pcRecv, data, res,
                   rect_x, rect_y, direction, delivered, quitPosted>>

\* (mutant) the take leaves the slot as it found it
NotCleared(old) == old

\* The slot after the take
Cleared(old) == None

\* current_command = None
MainClear ==
    /\ pcMain = "clear"
    /\ current_command' = Cleared(current_command)
    /\ pcMain' = "release"
    /\ UNCHANGED ctlVars
    /\ UNCHANGED <<command_to_use, command_lock, running, pcRecv, data, res,
                   rect_x, rect_y, direction, delivered, quitPosted, hist>>

\* with command_lock: (exit)
MainRelease ==
    /\ pcMain = "release"
    /\ command_lock' = "free"
    /\ pcMain' = "update"
    /\ UNCHANGED ctlVars
    /\ UNCHANGED <<current_command, command_to_use, running, pcRecv, data, res,
                   rect_x, rect_y, direction, delivered, quitPosted, hist>>

\* if command_to_use: robot.update(command_to_use); draw, flip, clock.tick(fps)
MainUpdate ==
    /\ pcMain = "update"
    /\ IF Truthy(command_to_use)
       THEN /\ rect_x' = rect_x + RobotDx(command_to_use)
            /\ rect_y' = rect_y + RobotDy(command_to_use)
            /\ direction' = RobotDirection(command_to_use, direction)
       ELSE UNCHANGED <<rect_x, rect_y, direction>>
    /\ hist' = [hist EXCEPT !.ticked = TRUE]
    /\ pcMain' = "while"
    /\ UNCHANGED ctlVars
    /\ UNCHANGED <<current_command, command_to_use, command_lock, running, pcRecv,
                   data, res, delivered, quitPosted>>

\* thread.join(); pygame.quit(); sys.exit()
MainJoin ==
    /\ pcMain = "join"
    /\ pcRecv \in {"done", "dead"}
    /\ pcMain' = "exit"
    /\ UNCHANGED ctlVars
    /\ UNCHANGED <<current_command, command_to_use, command_lock, running, pcRecv,
                   data, res, rect_x, rect_y, direction, delivered, quitPosted, hist>>

NextRobot ==
    \/ RecvWhile
    \/ RecvNothing
    \/ \E p \in Payloads : RecvDatagram(p)
    \/ RecvAcquire
    \/ RecvPrint
    \/ RecvDecode
    \/ RecvStore
    \/ RecvRaise
    \/ RecvRelease
    \/ MainWhile
    \/ MainEvents
    \/ MainQuit
    \/ MainAcquire
    \/ MainRead
    \/ MainClear
    \/ MainRelease
    \/ MainUpdate
    \/ MainJoin

\* ---- the same program under a stream of datagrams that never ends, and
\* with the scheduling of its two threads

\* sock.recvfrom(4096): one of the first LiveDatagrams datagrams
RecvLive(p) ==
    /\ pcRecv = "recvfrom"
    /\ delivered < LiveDatagrams
    /\ delivered' = delivered + 1
    /\ data' = p
    /\ pcRecv' = "acquire"
    /\ UNCHANGED ctlVars
    /\ UNCHANGED <<current_command, command_to_use, command_lock, running, pcMain,
                   res, rect_x, rect_y, direction, quitPosted, hist>>

\* sock.recvfrom(4096): a datagram of the stream that goes on after them
\* without end; it carries no command
RecvStream ==
    /\ pcRecv = "recvfrom"
    /\ delivered = LiveDatagrams
    /\ data' = T_hello
    /\ pcRecv' = "acquire"
    /\ UNCHANGED ctlVars
    /\ UNCHANGED <<current_command, command_to_use, command_lock, running, pcMain,
                   res, rect_x, rect_y, direction, delivered, quitPosted, hist>>

\* The steps of the thread running receive_commands
RecvThread ==
    \/ RecvWhile
    \/ RecvNothing
    \/ \E p \in Payloads : RecvLive(p)
    \/ RecvStream
    \/ RecvAcquire
    \/ RecvPrint
    \/ RecvDecode
    \/ RecvStore
    \/ RecvRaise
    \/ RecvRelease

\* The steps of the main thread
MainThread ==
    \/ MainWhile
    \/ MainEvents
    \/ MainQuit
    \/ MainAcquire
    \/ MainRead
    \/ MainClear
    \/ MainRelease
    \/ MainUpdate
    \/ MainJoin

NextLive ==
    \/ RecvWhile
    \/ RecvNothing
    \/ \E p \in Payloads : RecvLive(p)
    \/ RecvStream
    \/ RecvAcquire
    \/ RecvPrint
    \/ RecvDecode
    \/ RecvStore
    \/ RecvRaise
    \/ RecvRelease
    \/ MainWhile
    \/ MainEvents
    \/ MainQuit
    \/ MainAcquire
    \/ MainRead
    \/ MainClear
    \/ MainRelease
    \/ MainUpdate
    \/ MainJoin

\* Both threads keep running (the interpreter switches threads and the
\* operating system schedules both), and a thread waiting for command_lock
\* gets it when the lock is released again and again
SpecLive ==
    /\ InitRobot
    /\ [][NextLive]_vars
    /\ WF_vars(RecvThread)
    /\ WF_vars(MainThread)
    /\ SF_vars(RecvAcquire)
    /\ SF_vars(MainAcquire)

\* sock is closed by nothing but the end of the process, at sys.exit()
ActorSocketClosed == pcMain = "exit"

\* ---- the same program, one action per handler: a whole iteration of the
\* receive loop that gets a datagram, a whole iteration of the game loop

\* one iteration of receive_commands that receives p
HandleDatagram(p) ==
    /\ pcRecv = "while"
    /\ running
    /\ delivered < MaxFrames
    /\ delivered' = delivered + 1
    /\ data' = p
    /\ res' = DecodeFields(p)
    /\ IF StoreRaises(res')
       THEN /\ pcRecv' = "dead"
            /\ UNCHANGED <<current_command, hist>>
       ELSE /\ pcRecv' = "while"
            /\ current_command' = Publish(current_command, StoredValue(res'))
            /\ hist' = [hist EXCEPT !.writes = @ + 1, !.lastWrite = StoredValue(res')]
    /\ UNCHANGED ctlVars
    /\ UNCHANGED <<command_to_use, command_lock, running, pcMain, rect_x, rect_y,
                   direction, quitPosted>>

\* one iteration of the game loop; quit tells whether a QUIT event is pending
GameFrame(quit) ==
    /\ pcMain = "while"
    /\ running
    /\ quit => ~quitPosted
    /\ quitPosted' = (quitPosted \/ quit)
    /\ running' = ~quit
    /\ command_to_use' = current_command
    /\ current_command' = Cleared(current_command)
    /\ IF Truthy(current_command)
       THEN /\ rect_x' = rect_x + RobotDx(current_command)
            /\ rect_y' = rect_y + RobotDy(current_command)
            /\ direction' = RobotDirection(current_command, direction)
       ELSE UNCHANGED <<rect_x, rect_y, direction>>
    /\ hist' = [hist EXCEPT !.takenWrites = hist.writes, !.takenWrite = hist.lastWrite,
                            !.writes = 0, !.lastWrite = NoWrite,
                            !.before = <<rect_x, rect_y>>, !.ticked = TRUE]
    /\ UNCHANGED ctlVars
    /\ UNCHANGED <<command_lock, pcRecv, pcMain, data, res, delivered>>

\* the receive loop sees running = False and returns
ReceiveExit ==
    /\ pcRecv = "while"
    /\ ~running
    /\ pcRecv' = "done"
    /\ UNCHANGED ctlVars
    /\ UNCHANGED <<current_command, command_to_use, command_lock, running, pcMain,
                   data, res, rect_x, rect_y, direction, delivered, quitPosted, hist>>

\* the game loop has ended: thread.join(); pygame.quit(); sys.exit()
GameExit ==
    /\ pcMain = "while"
    /\ ~running
    /\ pcRecv \in {"done", "dead"}
    /\ pcMain' = "exit"
    /\ UNCHANGED ctlVars
    /\ UNCHANGED <<current_command, command_to_use, command_lock, running, pcRecv,
                   data, res, rect_x, rect_y, direction, delivered, quitPosted, hist>>

NextTicks ==
    \/ \E p \in Payloads : HandleDatagram(p)
    \/ \E quit \in BOOLEAN : GameFrame(quit)
    \/ ReceiveExit
    \/ GameExit

SpecRobot == InitRobot /\ [][NextRobot]_vars

SpecTicks == InitRobot /\ [][NextTicks]_vars


---------------------------------------------------------------------------
\* src/cliente_robot.py

\* RobotSocketController.__init__ arguments: the defaults, and a small arena
\* with a step of 33 in which the margins themselves are reached (x in
\* {25, 58, 91}, y in {35, 68, 101, 134, 167, 200})
DefaultConfig ==
    [distancia |-> 10, altura |-> 10, screen_width |-> 800, screen_height |-> 600]

SmallConfig ==
    [distancia |-> 33, altura |-> 2, screen_width |-> 116, screen_height |-> 240]

Configs == {DefaultConfig, SmallConfig}

\* screen_width // 2, screen_height // 1.2
InitialX(c) == c.screen_width \div 2
InitialY(c) == (c.screen_height * 10) \div 12

\* _calcular_deslocamento: <<dx, dy>>
CalcularDeslocamento(comando, c) ==
    IF comando = T_up THEN <<0, -c.distancia>>
    ELSE IF comando = T_down THEN <<0, c.distancia>>
    ELSE IF comando = T_left THEN <<-c.distancia, 0>>
    ELSE IF comando = T_right THEN <<c.distancia, 0>>
    ELSE <<0, 0>>

\* (mutant) _validar_movimento checking the screen edges, not the margins
ValidarSemMargem(x, y, dx, dy, c) ==
    /\ 0 <= x + dx /\ x + dx <= c.screen_width
    /\ 0 <= y + dy /\ y + dy <= c.screen_height

\* (mutant) _validar_movimento refusing a position on a margin itself
ValidarMovimentoStrict(x, y, dx, dy, c) ==
    /\ margin_x < x + dx /\ x + dx < c.screen_width - margin_x
    /\ margin_y < y + dy /\ y + dy < c.screen_height - margin_y

\* _validar_movimento at position (x, y)
ValidarMovimento(x, y, dx, dy, c) ==
    /\ margin_x <= x + dx /\ x + dx <= c.screen_width - margin_x
    /\ margin_y <= y + dy /\ y + dy <= c.screen_height - margin_y

\* The controller while a call runs: its position, the number of sendto
\* calls made, and one log entry <<frame, outcome, x, y>> per scheduled
\* command: "sent", "failed" (sendto raised socket.error) or "blocked", and
\* self.pos_x, self.pos_y as they were when the command was validated
Begin(x, y) == [x |-> x, y |-> y, sends |-> 0, log |-> <<>>]

Blocked(st, mensagem) ==
    [st EXCEPT !.log = Append(@, <<mensagem, "blocked", st.x, st.y>>)]

\* The position _send_message leaves when the move d is valid: it is assigned
\* before sendto is called, whether or not sendto then succeeds (ok)
Moved(st, d, ok) == [x |-> st.x + d[1], y |-> st.y + d[2]]

\* _send_message; the failAt-th sendto of the call raises socket.error
SendMessage(st, mensagem, c, failAt) ==
    LET fields == Split(mensagem, ";")
    IN  IF Len(fields) < 2
        THEN [st EXCEPT !.log = Append(@, <<mensagem, "error", st.x, st.y>>)]
        ELSE LET d == CalcularDeslocamento(fields[2], c)
                 ok == st.sends + 1 # failAt
             IN  IF ValidarMovimento(st.x, st.y, d[1], d[2], c)
                 THEN [x |-> Moved(st, d, ok).x, y |-> Moved(st, d, ok).y,
                       sends |-> st.sends + 1,
                       log |-> Append(st.log,
                                 <<mensagem, IF ok THEN "sent" ELSE "failed",
                                   st.x, st.y>>)]
                 ELSE Blocked(st, mensagem)

\* (mutant) a sequence that gives up at its first blocked movement
ExecutarMovimentoStop(st, movimento, c, failAt) ==
    IF st.log # <<>> /\ st.log[Len(st.log)][2] = "blocked" THEN st
    ELSE LET d == CalcularDeslocamento(Split(movimento, ";")[2], c)
         IN  IF ValidarMovimento(st.x, st.y, d[1], d[2], c)
             THEN SendMessage(st, movimento, c, failAt)
             ELSE Blocked(st, movimento)

\* (mutant) a sequence that a failed sendto brings to its end
ExecutarMovimentoAbort(st, movimento, c, failAt) ==
    IF \E i \in 1..Len(st.log) : st.log[i][2] = "failed" THEN st
    ELSE LET d == CalcularDeslocamento(Split(movimento, ";")[2], c)
         IN  IF ValidarMovimento(st.x, st.y, d[1], d[2], c)
             THEN SendMessage(st, movimento, c, failAt)
             ELSE Blocked(st, movimento)

\* One iteration of the loop of _executar_sequencia_movimentos
ExecutarMovimento(st, movimento, c, failAt) ==
    LET d == CalcularDeslocamento(Split(movimento, ";")[2], c)
    IN  IF ValidarMovimento(st.x, st.y, d[1], d[2], c)
        THEN SendMessage(st, movimento, c, failAt)
        ELSE Blocked(st, movimento)

\* _executar_sequencia_movimentos([movimento] * n)
RECURSIVE ExecutarSequencia(_, _, _, _, _)
ExecutarSequencia(st, movimento, n, c, failAt) ==
    \* (sends is never negative: the test only has st computed before the
    \* next step is)
    IF n = 0 \/ st.sends < 0 THEN st
    ELSE ExecutarSequencia(ExecutarMovimento(st, movimento, c, failAt),
                           movimento, n - 1, c, failAt)

\* (mutant) a loop of jump that sends its n vertical commands first and the
\* lateral ones after them
JumpLoopPhased(st, vertical, direcao, n, c, failAt) ==
    LET st1 == ExecutarSequencia(st, Frame(vertical), n, c, failAt)
    IN  IF Truthy(direcao)
        THEN ExecutarSequencia(st1, Frame(direcao), n, c, failAt)
        ELSE st1

\* One of jump's two loops: n times the vertical command, each followed by
\* the lateral one when a direction was given
RECURSIVE JumpLoop(_, _, _, _, _, _)
JumpLoop(st, vertical, direcao, n, c, failAt) ==
    IF n = 0 \/ st.sends < 0 THEN st
    ELSE LET st1 == ExecutarSequencia(st, Frame(vertical), 1, c, failAt)
             st2 == IF Truthy(direcao)
                    THEN ExecutarSequencia(st1, Frame(direcao), 1, c, failAt)
                    ELSE st1
         IN  JumpLoop(st2, vertical, direcao, n - 1, c, failAt)

\* (mutant) the top-margin test of jump with < for <=
JumpAtTopStrict(y) == y < margin_y

\* (mutant) jump descending one step less than it climbed
JumpShortDescent(st, direcao, c, failAt) ==
    IF Truthy(direcao) /\ direcao \notin {T_right, T_left} THEN st
    ELSE IF st.y <= margin_y THEN st
    ELSE JumpLoop(JumpLoop(st, T_up, direcao, c.altura, c, failAt),
                  T_down, direcao, c.altura - 1, c, failAt)

\* jump's guards
JumpBadDirection(direcao) == Truthy(direcao) /\ direcao \notin {T_right, T_left}

JumpAtTop(y) == y <= margin_y

\* jump(direcao)
Jump(st, direcao, c, failAt) ==
    IF JumpBadDirection(direcao) THEN st
    ELSE IF JumpAtTop(st.y) THEN st
    ELSE JumpLoop(JumpLoop(st, T_up, direcao, c.altura, c, failAt),
                  T_down, direcao, c.altura, c, failAt)

\* (mutant) the speed test of run with < for <=
RunBadSpeedStrict(velocidade) == velocidade < 0

\* run's guard: raise ValueError("Velocidade deve ser maior que zero.")
RunBadSpeed(velocidade) == velocidade <= 0

\* run(comando, velocidade) when the speed is valid; walk(comando)
Run(st, comando, c, failAt) ==
    ExecutarSequencia(st, Frame(comando), c.distancia, c, failAt)

\* dodge's guard: raise ValueError
DodgeBadDirection(direcao) == direcao \notin {T_right, T_left}

\* (mutant) dodge returning in the direction it left in
OpostaSame(direcao) == direcao

Oposta(direcao) == IF direcao = T_right THEN T_left ELSE T_right

\* dodge(direcao) when the direction is valid
Dodge(st, direcao, c, failAt) ==
    ExecutarSequencia(
        ExecutarSequencia(st, Frame(direcao), c.distancia, c, failAt),
        Frame(Oposta(direcao)), c.distancia, c, failAt)

\* What main() may pass as a direction, and as a speed
DirArgs   == Directions \cup {T_foo}
JumpArgs  == {None, T_left, T_right, T_foo}
SpeedArgs == {-1, 0, 2}

\* The frames of a log with the given outcome, in order
FramesOf(log, out) ==
    LET sel == SelectSeq(log, LAMBDA e : e[2] = out)
    IN  [i \in 1..Len(sel) |-> sel[i][1]]

\* What main() keeps of a call once it is back at its prompt: nothing
NoCall(x, y) ==
    [op |-> "none", arg |-> None, speed |-> 0, x0 |-> x, y0 |-> y,
     log |-> <<>>, raised |-> "none"]

\* controller = RobotSocketController(...)
InitController ==
    /\ cfg \in Configs
    /\ pos_x = InitialX(cfg)
    /\ pos_y = InitialY(cfg)
    /\ sock_open = TRUE
    /\ ctl_pc = "input"
    /\ ncalls = 0
    /\ last = NoCall(pos_x, pos_y)
    \* the actor is another process, not part of this specification
    /\ current_command = None
    /\ command_to_use = None
    /\ command_lock = "free"
    /\ running = FALSE
    /\ pcRecv = "off"
    /\ pcMain = "off"
    /\ data = None
    /\ res = <<>>
    /\ rect_x = 0
    /\ rect_y = 0
    /\ direction = None
    /\ delivered = 0
    /\ quitPosted = FALSE
    /\ hist = <<>>

\* The state after a call that ran to its end st (raised: the exception that
\* reached main(), which prints it and goes on with its loop)
Called(op, arg, speed, st, raised) ==
    /\ ctl_pc = "input"
    /\ ncalls < MaxCalls
    /\ ncalls' = ncalls + 1
    /\ ctl_pc' = "called"
    /\ pos_x' = st.x
    /\ pos_y' = st.y
    /\ last' = [op |-> op, arg |-> arg, speed |-> speed, x0 |-> pos_x, y0 |-> pos_y,
                log |-> st.log, raised |-> raised]
    /\ UNCHANGED <<cfg, sock_open>>
    /\ UNCHANGED robotVars

\* main(): "jump" or "jump,<direcao>"
CallJump(direcao, failAt) ==
    /\ ctl_pc = "input"
    /\ Called("jump", direcao, 0, Jump(Begin(pos_x, pos_y), direcao, cfg, failAt), "none")

\* main(): "dodge,<direcao>"
CallDodge(direcao, failAt) ==
    IF DodgeBadDirection(direcao)
    THEN Called("dodge", direcao, 0, Begin(pos_x, pos_y), "ValueError")
    ELSE Called("dodge", direcao, 0,
                Dodge(Begin(pos_x, pos_y), direcao, cfg, failAt), "none")

\* main(): "run,<direcao>,<velocidade>"
CallRun(comando, velocidade, failAt) ==
    IF RunBadSpeed(velocidade)
    THEN Called("run", comando, velocidade, Begin(pos_x, pos_y), "ValueError")
    ELSE Called("run", comando, velocidade,
                Run(Begin(pos_x, pos_y), comando, cfg, failAt), "none")

\* main(): "walk,<direcao>"
CallWalk(comando, failAt) ==
    /\ ctl_pc = "input"
    /\ Called("walk", comando, 5, Run(Begin(pos_x, pos_y), comando, cfg, failAt), "none")

\* main(): any other line, controller._send_message(f"controle;{acao}")
CallSend(acao, failAt) ==
    /\ ctl_pc = "input"
    /\ Called("send", acao, 0,
              SendMessage(Begin(pos_x, pos_y), Frame(acao), cfg, failAt), "none")

\* main(): back at input(...) for the next line
Prompt ==
    /\ ctl_pc = "called"
    /\ ctl_pc' = "input"
    /\ last' = NoCall(pos_x, pos_y)
    /\ UNCHANGED <<cfg, pos_x, pos_y, sock_open, ncalls>>
    /\ UNCHANGED robotVars

\* main(): "q", break, and the finally clause closes the socket
CallQuit ==
    /\ ctl_pc = "input"
    /\ ctl_pc' = "closed"
    /\ sock_open' = FALSE
    /\ UNCHANGED <<cfg, pos_x, pos_y, last, ncalls>>
    /\ UNCHANGED robotVars

NextController ==
    \/ \E d \in JumpArgs, f \in 0..MaxFailAt : CallJump(d, f)
    \/ \E d \in DirArgs, f \in 0..MaxFailAt : CallDodge(d, f)
    \/ \E d \in DirArgs, v \in SpeedArgs, f \in 0..MaxFailAt : CallRun(d, v, f)
    \/ \E d \in DirArgs, f \in 0..MaxFailAt : CallWalk(d, f)
    \/ \E a \in DirArgs, f \in 0..MaxFailAt : CallSend(a, f)
    \/ Prompt
    \/ CallQuit

SpecController == InitController /\ [][NextController]_vars

---------------------------------------------------------------------------
\* _validar_movimento on its own: a controller placed at any position within
\* a step (and ProbeSlack more) of one of its margins, on either side of it,
\* is asked whether a command may be sent

ProbeReach(c) == c.distancia + ProbeSlack

ProbeX(c) ==
    {b + o : b \in {margin_x, c.screen_width - margin_x},
             o \in -ProbeReach(c)..ProbeReach(c)}

ProbeY(c) ==
    {b + o : b \in {margin_y, c.screen_height - margin_y},
             o \in -ProbeReach(c)..ProbeReach(c)}

InitValidar ==
    /\ cfg \in Configs
    /\ pos_x \in ProbeX(cfg)
    /\ pos_y \in ProbeY(cfg)
    /\ sock_open = TRUE
    /\ ctl_pc = "probe"
    /\ ncalls = 0
    /\ last = NoCall(pos_x, pos_y)
    \* the actor is another process, not part of this specification
    /\ current_command = None
    /\ command_to_use = None
    /\ command_lock = "free"
    /\ running = FALSE
    /\ pcRecv = "off"
    /\ pcMain = "off"
    /\ data = None
    /\ res = <<>>
    /\ rect_x = 0
    /\ rect_y = 0
    /\ direction = None
    /\ delivered = 0
    /\ quitPosted = FALSE
    /\ hist = <<>>

\* dx, dy = self._calcular_deslocamento(comando);
\* self._validar_movimento(dx, dy), whose answer is kept in last.valid
Validar(comando) ==
    /\ ctl_pc = "probe"
    /\ ctl_pc' = "probed"
    /\ LET d == CalcularDeslocamento(comando, cfg)
       IN  last' = [op |-> "validar", arg |-> comando, x0 |-> pos_x, y0 |-> pos_y,
                    valid |-> ValidarMovimento(pos_x, pos_y, d[1], d[2], cfg)]
    /\ UNCHANGED <<cfg, pos_x, pos_y, sock_open, ncalls>>
    /\ UNCHANGED robotVars

NextValidar == \E comando \in DirArgs : Validar(comando)

SpecValidar == InitValidar /\ [][NextValidar]_vars

---------------------------------------------------------------------------
\* Claims about the actor (src/robot.py)


\* The displacement the protocol gives a command: <<dx, dy>> in pixels
StepOf(c) ==
    IF c = T_up THEN <<0, -10>>
    ELSE IF c = T_down THEN <<0, 10>>
    ELSE IF c = T_left THEN <<-10, 0>>
    ELSE IF c = T_right THEN <<10, 0>>
    ELSE <<0, 0>>

\* The displacement of the actor over the last tick
TickMove == <<rect_x - hist.before[1], rect_y - hist.before[2]>>

\* C1: latest-wins slot. Once the tick has taken (read and cleared) the slot,
\* the value it holds is the value of the last write the receive loop made
\* since the previous take, however many writes there were, and it is empty
\* when there was no write since the previous take.
C1_LatestWins ==
    pcMain \in {"release", "update"} =>
        command_to_use = (IF hist.takenWrite = NoWrite THEN None ELSE hist.takenWrite)

\* C1 witness: three writes landed between two takes and the take returned
\* the command "left"
C1_Witness ==
    /\ pcMain = "release"
    /\ hist.takenWrites = 3
    /\ command_to_use = T_left

\* C2: the actor's position (the centre of its rect) stays within the arena
\* margins in every reachable state.
C2_ActorInArena ==
    /\ margin_x <= robot_center_x /\ robot_center_x <= screen_width - margin_x
    /\ margin_y <= robot_center_y /\ robot_center_y <= screen_height - margin_y

\* C3: the lock is held only for the swap: the receive loop never holds it
\* while receiving, printing or decoding, and the game loop holds it only for
\* its read and clear.
C3_LockOnlyForSwap ==
    /\ command_lock = "recv" => pcRecv \notin {"recvfrom", "print", "decode"}
    /\ command_lock = "main" => pcMain \in {"read", "clear", "release"}

\* C4: a datagram that fails to decode never ends the receive loop: the
\* receive thread is never ended by an exception.
C4_DecodeErrorNotFatal == pcRecv # "dead"

\* A payload that is not "controle;" followed by one of the four directions
\* (case and surrounding blanks ignored)
Unrecognized(d) ==
    LET r == DecodeFields(d)
    IN  ~(Len(r) = 2 /\ r[1] = T_controle /\ r[2] \in Directions)

\* C5: a step of the receive loop that handles an unrecognized datagram leaves
\* the slot's content unchanged, and the value the tick hands to the
\* simulation is always empty or one of the four directions.
C5_UnrecognizedDropped ==
    /\ [][(pcRecv = "store" /\ pcRecv' # pcRecv /\ Unrecognized(data))
            => current_command' = current_command]_vars
    /\ [](command_to_use \in Directions \cup {None})

\* C6: over a tick the actor moves by at most one step; when it moves, the
\* step is that of the last datagram stored since the previous take, which is
\* a command; a tick whose take found nothing stored since the previous take,
\* or found the slot empty, leaves the position unchanged.
C6_TickAppliesLatest ==
    hist.ticked =>
        /\ TickMove # <<0, 0>> =>
              hist.takenWrite \in Directions /\ TickMove = StepOf(hist.takenWrite)
        /\ hist.takenWrites = 0 => TickMove = <<0, 0>>
        /\ ~Truthy(command_to_use) => TickMove = <<0, 0>>

\* C6 witness: two datagrams were stored between two takes and the tick moved
\* the actor by the step of the second
C6_Witness ==
    /\ hist.ticked
    /\ hist.takenWrites = 2
    /\ hist.takenWrite = T_down
    /\ TickMove = <<0, 10>>

---------------------------------------------------------------------------
\* Claims about the controller (src/cliente_robot.py)

\* n copies of a frame
Repeat(frame, n) == [i \in 1..n |-> frame]

\* The frames the last call put on the channel, in order
Transmitted == FramesOf(last.log, "sent")

\* No sendto of the last call raised
NoSendFailed == FramesOf(last.log, "failed") = <<>>

\* No scheduled command of the last call was blocked by the boundary check
NoneBlocked == FramesOf(last.log, "blocked") = <<>>

\* C7: a jump, with or without a direction, called while y <= margin_y is
\* refused whole: no frame is transmitted and the position is unchanged.
C7_JumpRefusedAtTop ==
    (last.op = "jump" /\ last.y0 <= margin_y) =>
        /\ Transmitted = <<>>
        /\ pos_x = last.x0 /\ pos_y = last.y0

\* C7 witness: jump was called with the controller on the top margin
C7_Witness ==
    /\ last.op = "jump"
    /\ last.arg = None
    /\ last.y0 = margin_y

\* C8 as claimed: a jump without direction from any position with
\* y > margin_y (no sendto raising) transmits altura "controle;up" frames then
\* altura "controle;down" frames and ends with y as before.
C8_JumpAnywhere ==
    (last.op = "jump" /\ last.arg = None /\ last.y0 > margin_y /\ NoSendFailed) =>
        /\ Transmitted = Repeat(Frame(T_up), cfg.altura) \o Repeat(Frame(T_down), cfg.altura)
        /\ pos_y = last.y0

\* C8 amended: a jump without direction from a position from which the whole
\* ascent fits under the top margin (y - altura * step >= margin_y), when no
\* sendto raises, transmits altura "controle;up" frames then altura
\* "controle;down" frames and ends at the position it started from.
C8_JumpWithRoom ==
    (/\ last.op = "jump" /\ last.arg = None
     /\ last.y0 - cfg.altura * cfg.distancia >= margin_y
     /\ NoSendFailed) =>
        /\ Transmitted = Repeat(Frame(T_up), cfg.altura) \o Repeat(Frame(T_down), cfg.altura)
        /\ pos_x = last.x0 /\ pos_y = last.y0

\* C8 witness: a jump of the default configuration sent its 20 frames
C8_Witness ==
    /\ last.op = "jump" /\ last.arg = None
    /\ cfg = DefaultConfig
    /\ NoSendFailed
    /\ Len(Transmitted) = 20
    /\ pos_y = last.y0

\* C9: a dodge to the left or right none of whose steps is blocked (and none
\* of whose sendto calls raises) transmits distancia frames in the direction,
\* then distancia frames in the opposite one, and ends where it started; from
\* (400, 500) in the default arena dodge("left") sends 10 "controle;left",
\* then 10 "controle;right", and ends at (400, 500).
C9_DodgeRoundTrip ==
    /\ (/\ last.op = "dodge" /\ last.arg \in {T_left, T_right}
        /\ NoneBlocked /\ NoSendFailed) =>
          /\ Transmitted = Repeat(Frame(last.arg), cfg.distancia)
                           \o Repeat(Frame(IF last.arg = T_left THEN T_right ELSE T_left),
                                     cfg.distancia)
          /\ pos_x = last.x0 /\ pos_y = last.y0
    /\ (/\ last.op = "dodge" /\ last.arg = T_left /\ cfg = DefaultConfig
        /\ last.x0 = 400 /\ last.y0 = 500 /\ NoSendFailed) =>
          /\ Transmitted = Repeat(Frame(T_left), 10) \o Repeat(Frame(T_right), 10)
          /\ pos_x = 400 /\ pos_y = 500

\* C9 witness: the scenario, dodge("left") from (400, 500)
C9_Witness ==
    /\ last.op = "dodge" /\ last.arg = T_left /\ cfg = DefaultConfig
    /\ last.x0 = 400 /\ last.y0 = 500
    /\ NoneBlocked /\ NoSendFailed
    /\ Len(Transmitted) = 20

\* C10: run with a speed <= 0 raises ValueError to its caller, transmits no
\* frame, leaves the position unchanged, and main() goes on to its next line
\* with the socket open.
C10_RunInvalidSpeed ==
    (last.op = "run" /\ last.speed <= 0) =>
        /\ last.raised = "ValueError"
        /\ last.log = <<>>
        /\ pos_x = last.x0 /\ pos_y = last.y0
        /\ ctl_pc = "called" /\ sock_open

\* C10 witness: run was called with speed 0 after an earlier call
C10_Witness ==
    /\ last.op = "run" /\ last.speed = 0
    /\ ncalls = 2

\* The displacement the controller's configuration gives a command
CtlStep(comando) ==
    IF comando = T_up THEN <<0, -cfg.distancia>>
    ELSE IF comando = T_down THEN <<0, cfg.distancia>>
    ELSE IF comando = T_left THEN <<-cfg.distancia, 0>>
    ELSE IF comando = T_right THEN <<cfg.distancia, 0>>
    ELSE <<0, 0>>

\* The point (x, y) lies inside the controller's margins, bounds included
InArena(x, y) ==
    /\ margin_x <= x /\ x <= cfg.screen_width - margin_x
    /\ margin_y <= y /\ y <= cfg.screen_height - margin_y

\* The direction field of a frame
FieldOf(frame) == Split(frame, ";")[2]

\* n times the sequence s
Times(s, n) == [i \in 1..(n * Len(s)) |-> s[((i - 1) % Len(s)) + 1]]

\* The primitive commands the last call scheduled, in order (none when the
\* call was refused)
Scheduled ==
    IF last.raised # "none" THEN <<>>
    ELSE IF last.op = "jump"
    THEN IF last.arg \notin {None, T_left, T_right} \/ last.y0 <= margin_y THEN <<>>
         ELSE LET lateral == IF last.arg = None THEN <<>> ELSE <<Frame(last.arg)>>
              IN  Times(<<Frame(T_up)>> \o lateral, cfg.altura)
                  \o Times(<<Frame(T_down)>> \o lateral, cfg.altura)
    ELSE IF last.op = "dodge"
    THEN Times(<<Frame(last.arg)>>, cfg.distancia)
         \o Times(<<Frame(IF last.arg = T_left THEN T_right ELSE T_left)>>,
                  cfg.distancia)
    ELSE IF last.op \in {"run", "walk"} THEN Times(<<Frame(last.arg)>>, cfg.distancia)
    ELSE IF last.op = "send" THEN <<Frame(last.arg)>>
    ELSE <<>>

\* The controller's position once the i-th scheduled command of the last call
\* was dealt with
PosAfter(i) ==
    IF i < Len(last.log) THEN <<last.log[i + 1][3], last.log[i + 1][4]>>
    ELSE <<pos_x, pos_y>>

\* C11: skip-and-continue. Within a gesture every scheduled primitive command
\* is attempted, in order, and checked against the position the controller
\* has at that moment: it is blocked exactly when its displaced position
\* leaves the margins, a blocked command is not sent and leaves the position
\* as it was, and the commands scheduled after it are still attempted.
C11_SkipAndContinue ==
    /\ [i \in 1..Len(last.log) |-> last.log[i][1]] = Scheduled
    /\ \A i \in 1..Len(last.log) :
         LET e == last.log[i]
             d == CtlStep(FieldOf(e[1]))
         IN  /\ (e[2] = "blocked") <=> ~InArena(e[3] + d[1], e[4] + d[2])
             /\ e[2] = "blocked" => PosAfter(i) = <<e[3], e[4]>>
             /\ i = 1 => <<e[3], e[4]>> = <<last.x0, last.y0>>

\* C11 witness: a gesture in which a blocked command was followed by a
\* command that was sent
C11_Witness ==
    /\ last.op \in {"jump", "dodge"}
    /\ \E i \in 1..(Len(last.log) - 1) :
         /\ last.log[i][2] = "blocked"
         /\ last.log[i + 1][2] = "sent"

\* C12: the boundary validator answers true for a position and one of the
\* four commands exactly when the position displaced by the command lies in
\* [margin_x, width - margin_x] x [margin_y, height - margin_y], bounds
\* included, and asking it changes neither the position nor the socket.
C12_ValidatorCorrect ==
    (last.op = "validar" /\ last.arg \in Directions) =>
        LET d == CtlStep(last.arg)
        IN  /\ last.valid <=> InArena(last.x0 + d[1], last.y0 + d[2])
            /\ pos_x = last.x0 /\ pos_y = last.y0
            /\ sock_open

\* C12 witness: a command that lands exactly on the right margin was allowed
C12_Witness ==
    /\ last.op = "validar" /\ last.arg = T_right
    /\ last.x0 + cfg.distancia = cfg.screen_width - margin_x
    /\ last.valid

\* C13: every frame handed to the socket, by any gesture or plain command and
\* for any direction argument the operator typed, is "controle;" followed by
\* one of up, down, left, right.
C13_WireFormat ==
    \A i \in 1..Len(Transmitted) : Transmitted[i] \in {Frame(d) : d \in Directions}

---------------------------------------------------------------------------
\* Claims about the actor's threads (src/robot.py)

\* C14: shutdown. Once running is false the game loop starts no further
\* tick, the receive loop leaves its poll loop whether or not datagrams keep
\* arriving, the receive thread is joined, and the socket is closed only
\* after both loops have stopped.
C14_Shutdown ==
    /\ (~running) ~> (pcMain = "exit" /\ pcRecv \in {"done", "dead"})
    /\ [](ActorSocketClosed => (pcRecv \in {"done", "dead"} /\ ~running))
    /\ [][~running => ~(pcMain = "while" /\ pcMain' = "events")]_vars

\* C14 witness: the process has ended although the stream of datagrams went
\* on during the shutdown
C14_Witness ==
    /\ pcMain = "exit"
    /\ pcRecv = "done"
    /\ delivered = LiveDatagrams
    /\ hist.writes > 0

---------------------------------------------------------------------------
\* Claims about the controller's sends (src/cliente_robot.py)

\* The entries of the last call's log whose sendto raised
FailedAt == {i \in 1..Len(last.log) : last.log[i][2] = "failed"}

\* C16: a sendto that fails inside a gesture drops that one command only: no
\* exception reaches the caller, the failed frame is not among the
\* transmitted ones, and every command scheduled after it is still
\* attempted (sent, or blocked by the validator), so that main() is back at
\* its prompt with the socket open.
C16_SendFailureDropsOne ==
    (last.op \in {"jump", "dodge", "run", "walk"} /\ FailedAt # {}) =>
        /\ last.raised = "none"
        /\ Len(last.log) = Len(Scheduled)
        /\ \A i \in FailedAt : \A j \in (i + 1)..Len(last.log) :
             /\ last.log[j][1] = Scheduled[j]
             /\ last.log[j][2] \in {"sent", "blocked", "failed"}
        /\ Len(Transmitted) + Cardinality(FailedAt)
             + Len(FramesOf(last.log, "blocked")) = Len(Scheduled)
        /\ ctl_pc = "called" /\ sock_open

\* C16 witness: a dodge whose first sendto failed sent its other 19 frames
C16_Witness ==
    /\ last.op = "dodge" /\ cfg = DefaultConfig
    /\ FailedAt = {1}
    /\ Len(Transmitted) = 19

\* C17: a jump to the left or right none of whose steps is blocked (and none
\* of whose sendto calls raises) transmits (up, direction) altura times,
\* then (down, direction) altura times, 4 x altura frames in all, and ends
\* at the y it started from with x displaced by 2 x altura steps in the
\* direction.
C17_JumpInterleaved ==
    (/\ last.op = "jump" /\ last.arg \in {T_left, T_right}
     /\ last.y0 > margin_y
     /\ NoneBlocked /\ NoSendFailed) =>
        /\ Transmitted = Times(<<Frame(T_up), Frame(last.arg)>>, cfg.altura)
                         \o Times(<<Frame(T_down), Frame(last.arg)>>, cfg.altura)
        /\ Len(Transmitted) = 4 * cfg.altura
        /\ pos_y = last.y0
        /\ pos_x = last.x0 + 2 * cfg.altura * cfg.distancia
                             * (IF last.arg = T_left THEN -1 ELSE 1)

\* C17 witness: jump("left") from (400, 500) in the default arena sent its 40
\* frames and ended at (200, 500)
C17_Witness ==
    /\ last.op = "jump" /\ last.arg = T_left /\ cfg = DefaultConfig
    /\ last.x0 = 400 /\ last.y0 = 500
    /\ NoneBlocked /\ NoSendFailed
    /\ Len(Transmitted) = 40
    /\ pos_x = 200 /\ pos_y = 500

---------------------------------------------------------------------------
\* Claims about the actor's slot (src/robot.py)

\* C18: atomic take. Under every interleaving of the two threads no write of
\* the receive loop lands between the take's read and its reset: what the
\* reset erases is the value the read returned, so a written command is
\* either returned by one take or overwritten by a later datagram, never
\* erased unread by a take, and the slot is empty when the take lets go of
\* it, so no command is returned by two takes.
C18_AtomicTake ==
    /\ pcMain = "clear" => (current_command = command_to_use /\ hist.writes = 0)
    /\ pcMain = "release" => (current_command = None /\ hist.writes = 0)

\* C18 witness: the take has read a command and not yet reset the slot while
\* the receive loop waits with the next datagram in hand
C18_Witness ==
    /\ pcMain = "clear"
    /\ Truthy(command_to_use)
    /\ pcRecv = "acquire"
    /\ DecodeFields(data) = <<T_controle, T_up>>

---------------------------------------------------------------------------
\* Claims about the controller's position (src/cliente_robot.py)

\* C19: a controller built with the default configuration (800 x 600,
\* margins 25 and 35, step 10, start (400, 500)) has its position inside the
\* margins after any sequence of gestures and plain commands, and at every
\* scheduled command within them.
C19_ControllerInArena ==
    cfg = DefaultConfig =>
        /\ margin_x <= pos_x /\ pos_x <= 800 - margin_x
        /\ margin_y <= pos_y /\ pos_y <= 600 - margin_y
        /\ \A i \in 1..Len(last.log) :
             /\ margin_x <= last.log[i][3] /\ last.log[i][3] <= 800 - margin_x
             /\ margin_y <= last.log[i][4] /\ last.log[i][4] <= 600 - margin_y

\* C19 witness: the default controller walked down to y = 560, where its
\* remaining steps were blocked
C19_Witness ==
    /\ cfg = DefaultConfig
    /\ last.op = "walk" /\ last.arg = T_down
    /\ pos_y = 560
    /\ Len(FramesOf(last.log, "blocked")) > 0

\* The number of frames carrying the command among the transmitted ones
SentCount(comando) ==
    Cardinality({i \in 1..Len(Transmitted) : Transmitted[i] = Frame(comando)})

\* C20: the mirror tracks transmissions. The mirrored position changes only
\* by the frames that were handed to the socket successfully: after a call
\* it is the position before the call plus the displacements of the frames
\* transmitted, a blocked command or a failed send leaving it as it was.
C20_MirrorTracksTransmissions ==
    /\ pos_x = last.x0 + cfg.distancia * (SentCount(T_right) - SentCount(T_left))
    /\ pos_y = last.y0 + cfg.distancia * (SentCount(T_down) - SentCount(T_up))

====
